---- MODULE Spec2Model ----
(***************************************************************************)
(* Cythoner: Generator renders a Python syntax tree as Cython text and     *)
(* writes it to generated.pyx (src/__init__.py).                           *)
(*                                                                         *)
(* Text is a sequence of one-character strings.  A Python object is a      *)
(* record whose field "kind" is its type name and whose other fields are   *)
(* its attributes, so hasattr(o, a) is  a \in DOMAIN o  and type(o) is     *)
(* o.kind.  A Python list whose type the code inspects is the record       *)
(* [kind |-> "list", elts |-> <<...>>]; one it only iterates or indexes is *)
(* a sequence.  Source text is represented by what ast.parse makes of it.  *)
(***************************************************************************)
EXTENDS Integers, Sequences, FiniteSets, TLC

VARIABLES
    filename,   \* the filename argument of Generator(...)
    code,       \* the code argument, then the text read from filename
    disk,       \* what open(filename, 'r').read() yields
    tree,       \* ast.parse(code)
    generate,   \* the accumulated output text
    idx,        \* number of nodes of tree.body the for loop has consumed
    node,       \* the node of tree.body handed to parse_stmt last
    ret,        \* what that parse_stmt call returned or raised
    pyx,        \* contents of generated.pyx
    opens,      \* number of times generated.pyx was opened for writing
    pc,         \* position inside Generator.__init__
    exc,        \* the exception __init__ raised, "None" if none
    addr        \* the address text id() contributes to an object's repr

vars == <<filename, code, disk, tree, generate, idx, node, ret, pyx, opens, pc, exc, addr>>

----------------------------------------------------------------------------
(* Bounds *)

MaxStmts == 2    \* top-level statements of a module
MaxBody == 2     \* statements of a for/if body
MaxArgs == 2     \* positional arguments of a call
MaxInt == 10     \* largest integer constant
Indent == 4      \* column offset of a nested statement

----------------------------------------------------------------------------
(* Text *)

space(n) == [k \in 1..n |-> " "]

RECURSIVE join(_, _)
join(sep, parts) ==
    IF Len(parts) = 0 THEN <<>>
    ELSE IF Len(parts) = 1 THEN parts[1]
    ELSE parts[1] \o sep \o join(sep, Tail(parts))

Digits == <<"0", "1", "2", "3", "4", "5", "6", "7", "8", "9">>

RECURSIVE IntStr(_)
IntStr(n) ==
    IF n < 10 THEN <<Digits[n + 1]>>
    ELSE IntStr(n \div 10) \o <<Digits[(n % 10) + 1]>>

----------------------------------------------------------------------------
(* Python values and syntax-tree nodes *)

PyNone == [kind |-> "NoneType"]
PyInt(n) == [kind |-> "int", n |-> n]
PyStr(s) == [kind |-> "str", s |-> s]
PyList(s) == [kind |-> "list", elts |-> s]

Name(id) == [kind |-> "Name", id |-> id]
Constant(v) == [kind |-> "Constant", value |-> v]
Op(k) == [kind |-> k]
BinOp(l, o, r) == [kind |-> "BinOp", left |-> l, op |-> Op(o), right |-> r]
UnaryOp(o, e) == [kind |-> "UnaryOp", op |-> Op(o), operand |-> e]
Compare(l, os, cs) ==
    [kind |-> "Compare", left |-> l,
     ops |-> PyList([k \in DOMAIN os |-> Op(os[k])]), comparators |-> PyList(cs)]
Call(f, as) == [kind |-> "Call", func |-> f, args |-> PyList(as)]
Attribute(v, a) == [kind |-> "Attribute", value |-> v, attr |-> a]
ListExpr(es, c) == [kind |-> "List", elts |-> es, col_offset |-> c]
alias(n, a) == [kind |-> "alias", name |-> n, asname |-> a]
arg(a, ann) == [kind |-> "arg", arg |-> a, annotation |-> ann]
arguments(as) == [kind |-> "arguments", args |-> as]

Expr(v, c) == [kind |-> "Expr", value |-> v, col_offset |-> c]
Pass(c) == [kind |-> "Pass", col_offset |-> c]
AnnAssign(t, ann, v, c) ==
    [kind |-> "AnnAssign", target |-> t, annotation |-> ann, value |-> v, col_offset |-> c]
Assign(ts, v, c) == [kind |-> "Assign", targets |-> ts, value |-> v, col_offset |-> c]
Return(v, c) == [kind |-> "Return", value |-> v, col_offset |-> c]
For(t, it, b, c) ==
    [kind |-> "For", target |-> t, iter |-> it, body |-> b, col_offset |-> c]
AugAssign(t, o, v, c) ==
    [kind |-> "AugAssign", target |-> t, op |-> Op(o), value |-> v, col_offset |-> c]
If(t, b, c) == [kind |-> "If", test |-> t, body |-> b, col_offset |-> c]
Import(ns, c) == [kind |-> "Import", names |-> PyList(ns), col_offset |-> c]
ImportFrom(m, ns, l, c) ==
    [kind |-> "ImportFrom", module |-> m, names |-> PyList(ns), level |-> l,
     col_offset |-> c]
RaiseStmt(e, c) == [kind |-> "Raise", exc |-> e, col_offset |-> c]
FunctionDef(n, as, r, ds, b, c) ==
    [kind |-> "FunctionDef", name |-> n, args |-> arguments(as), returns |-> r,
     decorator_list |-> ds, body |-> b, col_offset |-> c]
ClassDef(n, b, c) == [kind |-> "ClassDef", name |-> n, body |-> b, col_offset |-> c]
While(t, b, c) == [kind |-> "While", test |-> t, body |-> b, col_offset |-> c]
Module(b) == [kind |-> "Module", body |-> b]

\* source text that ast.parse rejects, and a file that cannot be opened
BadSyntax == [kind |-> "SyntaxError"]
NoFile == [kind |-> "FileNotFoundError"]

----------------------------------------------------------------------------
(* Outcome of a call: the text returned, None returned, or an exception *)

Ok(t) == [st |-> "ok", text |-> t]
NoneResult == [st |-> "None", text |-> <<>>]
Raised(e) == [st |-> e, text |-> <<>>]
NotCalled == [st |-> "unset", text |-> <<>>]

\* an f-string: the parts are evaluated left to right, the first exception wins
RECURSIVE Fmt(_)
Fmt(parts) ==
    IF Len(parts) = 0 THEN Ok(<<>>)
    ELSE IF parts[1].st # "ok" THEN parts[1]
    ELSE LET rest == Fmt(Tail(parts))
         IN  IF rest.st # "ok" THEN rest ELSE Ok(parts[1].text \o rest.text)

\* sep.join(results): the first exception wins
JoinR(sep, rs) ==
    LET f == Fmt(rs)
    IN  IF f.st # "ok" THEN f ELSE Ok(join(sep, [k \in DOMAIN rs |-> rs[k].text]))

\* o.id, o.func
AttrId(o) == IF "id" \in DOMAIN o THEN Ok(o.id) ELSE Raised("AttributeError")

ClassName(k) ==
    CASE k = "Name" -> <<"N", "a", "m", "e">>
      [] k = "Constant" -> <<"C", "o", "n", "s", "t", "a", "n", "t">>
      [] k = "BinOp" -> <<"B", "i", "n", "O", "p">>
      [] k = "UnaryOp" -> <<"U", "n", "a", "r", "y", "O", "p">>
      [] k = "Compare" -> <<"C", "o", "m", "p", "a", "r", "e">>
      [] k = "Call" -> <<"C", "a", "l", "l">>
      [] k = "Attribute" -> <<"A", "t", "t", "r", "i", "b", "u", "t", "e">>
      [] k = "List" -> <<"L", "i", "s", "t">>
      [] k = "alias" -> <<"a", "l", "i", "a", "s">>
      [] k = "Expr" -> <<"E", "x", "p", "r">>

\* str(v): an int, a str, None, or an object with the default repr
Str(v) ==
    CASE v.kind = "int" -> IntStr(v.n)
      [] v.kind = "str" -> v.s
      [] v.kind = "NoneType" -> <<"N", "o", "n", "e">>
      [] OTHER -> <<"<", "a", "s", "t", ".">> \o ClassName(v.kind) \o <<" ", "o", "b", "j", "e", "c", "t", " ", "a", "t", " ", "0", "x">> \o addr \o <<">">>

\* the table with floor division spelled as true division
operatorsFloorDivSlip ==
    [Add |-> <<"+">>, Sub |-> <<"-">>, Mult |-> <<"*">>, Div |-> <<"/">>, Pow |-> <<"*", "*">>,
     Mod |-> <<"%">>, LShift |-> <<"<", "<">>, RShift |-> <<">", ">">>, BitOr |-> <<"|">>,
     BitXor |-> <<"^">>, BitAnd |-> <<"&">>, FloorDiv |-> <<"/">>, Eq |-> <<"=", "=">>,
     NotEq |-> <<"!", "=">>, Lt |-> <<"<">>, LtE |-> <<"<", "=">>, Gt |-> <<">">>, GtE |-> <<">", "=">>,
     Is |-> <<"i", "s">>, IsNot |-> <<"i", "s", " ", "n", "o", "t">>, In |-> <<"i", "n">>, NotIn |-> <<"n", "o", "t", " ", "i", "n">>]

operators ==
    [Add |-> <<"+">>, Sub |-> <<"-">>, Mult |-> <<"*">>, Div |-> <<"/">>, Pow |-> <<"*", "*">>,
     Mod |-> <<"%">>, LShift |-> <<"<", "<">>, RShift |-> <<">", ">">>, BitOr |-> <<"|">>,
     BitXor |-> <<"^">>, BitAnd |-> <<"&">>, FloorDiv |-> <<"/", "/">>, Eq |-> <<"=", "=">>,
     NotEq |-> <<"!", "=">>, Lt |-> <<"<">>, LtE |-> <<"<", "=">>, Gt |-> <<">">>, GtE |-> <<">", "=">>,
     Is |-> <<"i", "s">>, IsNot |-> <<"i", "s", " ", "n", "o", "t">>, In |-> <<"i", "n">>, NotIn |-> <<"n", "o", "t", " ", "i", "n">>]

\* operators[type(o)]
OperatorOf(o) ==
    IF o.kind \in DOMAIN operators THEN Ok(operators[o.kind]) ELSE Raised("KeyError")

----------------------------------------------------------------------------
(* The renderer *)

RECURSIVE parse_atom(_), parse_stmt(_), parse_body(_), parse_expr(_), parse_args(_)

parse_atom(n) ==
    CASE n.kind = "Name" -> Ok(n.id)
      [] n.kind = "Constant" ->
            IF n.value.kind = "str" THEN Ok(<<"'">> \o n.value.s \o <<"'">>)
            ELSE Ok(Str(n.value))
      [] OTHER -> parse_expr(n)

\* the option tokens the decorators of a function definition contribute
RECURSIVE Options(_, _)
Options(decorators, options) ==
    IF Len(decorators) = 0 THEN [st |-> "ok", items |-> options]
    ELSE LET decorator == decorators[1]
             id == IF "func" \in DOMAIN decorator THEN AttrId(decorator.func)
                   ELSE Raised("AttributeError")
         IN  IF id.st # "ok" THEN [st |-> id.st, items |-> <<>>]
             ELSE IF id.text = <<"n", "o", "_", "g", "i", "l">>
                  THEN Options(Tail(decorators), Append(options, <<"n", "o", "g", "i", "l">>))
             ELSE IF id.text = <<"e", "x", "c", "e", "p", "t", "_", "e", "r", "r", "o", "r">>
                  THEN LET a == parse_args(decorator.args)
                       IN  IF a.st # "ok" THEN [st |-> a.st, items |-> <<>>]
                           ELSE Options(Tail(decorators),
                                        Append(options, <<"e", "x", "c", "e", "p", "t", " ">> \o a.text))
             ELSE Options(Tail(decorators), options)

parse_stmt(stmt) ==
    CASE stmt.kind = "Expr" -> parse_expr(stmt)
      [] stmt.kind = "Pass" -> Ok(space(stmt.col_offset) \o <<".", ".", ".">>)
      [] stmt.kind = "List" ->
            Fmt(<<Ok(space(stmt.col_offset) \o <<"[">>),
                  JoinR(<<",", " ">>, [k \in DOMAIN stmt.elts |-> parse_expr(stmt.elts[k])]),
                  Ok(<<"]">>)>>)
      [] stmt.kind = "AnnAssign" ->
            Fmt(<<Ok(space(stmt.col_offset)), AttrId(stmt.target), Ok(<<":", " ">>),
                  AttrId(stmt.annotation), Ok(<<" ", "=", " ">>), parse_expr(stmt.value)>>)
      [] stmt.kind = "Assign" ->
            Fmt(<<Ok(space(stmt.col_offset)), AttrId(stmt.targets[1]), Ok(<<" ", "=", " ">>),
                  parse_expr(stmt.value)>>)
      [] stmt.kind = "Return" ->
            Fmt(<<Ok(space(stmt.col_offset) \o <<"r", "e", "t", "u", "r", "n", " ">>), parse_expr(stmt.value)>>)
      [] stmt.kind = "For" ->
            Fmt(<<Ok(space(stmt.col_offset) \o <<"f", "o", "r", " ">>), AttrId(stmt.target),
                  Ok(<<" ", "i", "n", " ">>), parse_expr(stmt.iter), Ok(<<":", "\n">>),
                  parse_body(stmt.body), Ok(<<"\n">>)>>)
      [] stmt.kind = "AugAssign" ->
            Fmt(<<Ok(space(stmt.col_offset) \o Str(stmt.target) \o <<" ">>),
                  OperatorOf(stmt.op), Ok(<<"=", " ">>), parse_expr(stmt.value)>>)
      [] stmt.kind = "If" ->
            Fmt(<<Ok(space(stmt.col_offset) \o <<"i", "f", " ">>), parse_expr(stmt.test),
                  Ok(<<":", "\n">>), parse_body(stmt.body), Ok(<<"\n">>)>>)
      [] stmt.kind = "Import" ->
            Fmt(<<Ok(space(stmt.col_offset) \o <<"i", "m", "p", "o", "r", "t", " ">>), parse_args(stmt.names)>>)
      [] stmt.kind = "ImportFrom" ->
            IF stmt.module = PyNone
            THEN Ok(space(stmt.col_offset) \o <<"f", "r", "o", "m", " ">>
                    \o [k \in 1..stmt.level |-> "."] \o <<" ", "i", "m", "p", "o", "r", "t", " ">>
                    \o join(<<",", " ">>, [k \in DOMAIN stmt.names.elts |-> stmt.names.elts[k].name])
                    \o <<"\n">>)
            ELSE Ok(space(stmt.col_offset) \o <<"f", "r", "o", "m", " ">>
                    \o [k \in 1..stmt.level |-> "."] \o Str(stmt.module) \o <<" ", "i", "m", "p", "o", "r", "t", " ">>
                    \o join(<<",", " ">>, [k \in DOMAIN stmt.names.elts |-> stmt.names.elts[k].name])
                    \o <<"\n">>)
      [] stmt.kind = "Raise" ->
            IF stmt.exc.kind = "Name"
            THEN Ok(space(stmt.col_offset) \o <<"r", "a", "i", "s", "e", " ">> \o stmt.exc.id)
            ELSE IF stmt.exc.kind = "Call"
            THEN Fmt(<<Ok(space(stmt.col_offset) \o <<"r", "a", "i", "s", "e", " ">>), AttrId(stmt.exc.func),
                       Ok(<<"(">>), parse_args(stmt.exc.args), Ok(<<")", ")">>)>>)
            ELSE NoneResult
      [] stmt.kind = "FunctionDef" ->
            LET o == Options(stmt.decorator_list, <<>>)
            IN  IF o.st # "ok" THEN Raised(o.st)
                ELSE IF stmt.returns # PyNone
                THEN Fmt(<<Ok(space(stmt.col_offset) \o <<"c", "d", "e", "f", " ">>), AttrId(stmt.returns),
                           Ok(<<" ">> \o stmt.name \o <<"(">>), parse_args(stmt.args),
                           Ok(<<")", " ">> \o join(<<",", " ">>, o.items) \o <<":", "\n">>),
                           parse_body(stmt.body), Ok(<<"\n">>)>>)
                ELSE Fmt(<<Ok(space(stmt.col_offset) \o <<"d", "e", "f", " ">> \o stmt.name \o <<"(">>),
                           parse_args(stmt.args),
                           Ok(<<")", " ">> \o join(<<",", " ">>, o.items) \o <<":", "\n">>),
                           parse_body(stmt.body), Ok(<<"\n">>)>>)
      [] OTHER -> NoneResult

parse_body(body) ==
    IF Len(body) = 0 THEN Ok(<<>>)
    ELSE LET s == parse_stmt(body[1])
         IN  IF s.st = "None" THEN parse_body(Tail(body))
             ELSE Fmt(<<s, parse_body(Tail(body))>>)

parse_expr(expr) ==
    IF "value" \in DOMAIN expr
    THEN CASE expr.value.kind = "Name" -> AttrId(expr)
           [] expr.value.kind = "Call" ->
                 IF expr.value.func.kind = "Attribute"
                 THEN Fmt(<<AttrId(expr.value.func.value),
                            Ok(<<".">> \o expr.value.func.attr \o <<"(">>),
                            parse_args(expr.value.args), Ok(<<")">>)>>)
                 ELSE Fmt(<<AttrId(expr.value.func), Ok(<<"(">>),
                            parse_args(expr.value.args), Ok(<<")">>)>>)
           [] OTHER -> Ok(Str(expr.value))
    ELSE IF expr.kind = "Call"
    THEN IF expr.func.kind = "Attribute"
         THEN Fmt(<<parse_atom(expr.func.value), Ok(<<".">> \o expr.func.attr \o <<"(">>),
                    parse_args(expr.args), Ok(<<")">>)>>)
         ELSE Fmt(<<AttrId(expr.func), Ok(<<"(">>), parse_args(expr.args), Ok(<<")">>)>>)
    ELSE IF expr.kind = "BinOp"
    THEN Fmt(<<parse_atom(expr.left), Ok(<<" ">>), OperatorOf(expr.op), Ok(<<" ">>),
               parse_atom(expr.right)>>)
    ELSE IF expr.kind = "Compare"
    THEN Fmt(<<parse_atom(expr.left), Ok(<<" ">>), OperatorOf(expr.ops), Ok(<<" ">>),
               parse_atom(expr.comparators.elts[1])>>)
    ELSE Ok(Str(expr))

parse_args(as) ==
    IF "args" \in DOMAIN as
    THEN JoinR(<<",", " ">>,
               [k \in DOMAIN as.args |->
                   IF as.args[k].annotation # PyNone
                   THEN Fmt(<<AttrId(as.args[k].annotation),
                              Ok(<<" ">> \o as.args[k].arg)>>)
                   ELSE Ok(as.args[k].arg)])
    ELSE IF as.kind = "list"
    THEN JoinR(<<",", " ">>, [k \in DOMAIN as.elts |-> parse_atom(as.elts[k])])
    ELSE Ok(<<>>)

----------------------------------------------------------------------------
(* The inputs: syntax trees ast.parse can build *)

Addrs == {<<"7", "f", "6", "d", "c", "5", "1", "2", "1", "5", "d", "0">>, <<"1", "0", "a", "3", "f", "e", "8", "8", "0">>}

X == Name(<<"x">>)
Y == Name(<<"y">>)
One == Constant(PyInt(1))
Two == Constant(PyInt(2))

Names == {X, Y}
Atoms == Names \cup {One, Two, Constant(PyInt(MaxInt)), Constant(PyStr(<<"a">>))}

\* the operator kinds of the table, and one the table lacks
TableBinOps ==
    {"Add", "Sub", "Mult", "Div", "Pow", "Mod", "LShift", "RShift", "BitOr", "BitXor",
     "BitAnd", "FloorDiv"}
TableCmpOps == {"Eq", "NotEq", "Lt", "LtE", "Gt", "GtE", "Is", "IsNot", "In", "NotIn"}
BinOpKinds == TableBinOps \cup {"MatMult"}

BinOps ==
    {BinOp(l, o, r) : l \in Atoms, o \in BinOpKinds, r \in Atoms}
        \cup {BinOp(BinOp(X, "Add", One), "Mult", Two), BinOp(One, "Sub", BinOp(X, "Pow", Two))}
Compares ==
    {Compare(l, <<o>>, <<r>>) : l \in {X, One}, o \in TableCmpOps, r \in {Y, Two}}
        \cup {Compare(X, <<"Lt", "LtE">>, <<Y, Constant(PyInt(MaxInt))>>)}
ArgLists == UNION {[1..n -> {X, One, Constant(PyStr(<<"a">>))}] : n \in 0..MaxArgs}
Calls ==
    {Call(f, as) : f \in {Name(<<"f">>), Attribute(X, <<"b">>), Attribute(Call(X, <<>>), <<"b">>)},
                   as \in ArgLists}
Values ==
    Atoms \cup BinOps \cup Compares \cup Calls
        \cup {Attribute(X, <<"b">>), Attribute(Call(Name(<<"f">>), <<>>), <<"b">>),
              UnaryOp("USub", One), ListExpr(<<One, Two>>, Indent)}
SmallValues == {X, One, Constant(PyStr(<<"a">>)), BinOp(One, "Add", Two), Call(Name(<<"f">>), <<X>>)}

Aliases == {alias(<<"o", "s">>, PyNone), alias(<<"s", "y", "s">>, PyStr(<<"s">>))}
AliasLists == UNION {[1..n -> Aliases] : n \in 1..2}
ValueError == Name(<<"V", "a", "l", "u", "e", "E", "r", "r", "o", "r">>)

Leaf(c) ==
    {Pass(c), ClassDef(<<"A">>, <<Pass(c + Indent)>>, c), While(X, <<Pass(c + Indent)>>, c)}
        \cup {Assign(<<X>>, v, c) : v \in Values}
        \cup {Assign(<<Attribute(X, <<"b">>)>>, One, c), Assign(<<X, Y>>, One, c)}
        \cup {AnnAssign(X, Name(<<"i", "n", "t">>), v, c) : v \in SmallValues \cup {PyNone}}
        \cup {AugAssign(X, o, v, c) : o \in BinOpKinds, v \in {One, Y}}
        \cup {Return(v, c) : v \in SmallValues \cup {PyNone}}
        \cup {Import(ns, c) : ns \in AliasLists}
        \cup {ImportFrom(m, ns, l, c) : m \in {PyNone, PyStr(<<"m">>)}, ns \in AliasLists, l \in 1..2}
        \cup {ImportFrom(PyStr(<<"m">>), <<alias(<<"o", "s">>, PyNone)>>, 0, c)}
        \cup {RaiseStmt(e, c) : e \in {ValueError, PyNone, Attribute(X, <<"b">>)}}
        \cup {RaiseStmt(Call(f, as), c) : f \in {ValueError, Attribute(X, <<"b">>)}, as \in ArgLists}
        \cup {Expr(v, c) : v \in SmallValues \cup Calls \cup {BinOp(X, "MatMult", Y)}}

BodyStmts(c) ==
    {Pass(c), Return(X, c), Return(One, c), Assign(<<X>>, BinOp(One, "Add", Two), c),
     Expr(Call(Name(<<"p", "r", "i", "n", "t">>), <<X>>), c), ClassDef(<<"A">>, <<Pass(c + Indent)>>, c),
     AugAssign(X, "Add", One, c), RaiseStmt(ValueError, c)}
Bodies(c) == UNION {[1..n -> BodyStmts(c)] : n \in 1..MaxBody}

Range10 == Call(Name(<<"r", "a", "n", "g", "e">>), <<Constant(PyInt(MaxInt))>>)
ParamLists ==
    {<<>>, <<arg(<<"x">>, Name(<<"i", "n", "t">>))>>, <<arg(<<"x">>, PyNone), arg(<<"y">>, Name(<<"i", "n", "t">>))>>,
     <<arg(<<"x">>, Attribute(X, <<"b">>))>>}
Returns == {PyNone, Name(<<"i", "n", "t">>), Constant(PyNone)}
NoGil == Call(Name(<<"n", "o", "_", "g", "i", "l">>), <<>>)
ExceptError == Call(Name(<<"e", "x", "c", "e", "p", "t", "_", "e", "r", "r", "o", "r">>), <<ValueError>>)
DecoratorLists ==
    {<<>>, <<NoGil>>, <<ExceptError>>, <<NoGil, ExceptError>>, <<ExceptError, NoGil>>,
     <<Call(Name(<<"o", "t", "h", "e", "r">>), <<>>)>>, <<Name(<<"s", "t", "a", "t", "i", "c", "m", "e", "t", "h", "o", "d">>)>>}
FnBodies(c) ==
    {<<Pass(c)>>, <<Return(X, c)>>, <<ClassDef(<<"A">>, <<Pass(c + Indent)>>, c), Return(One, c)>>,
     <<If(Call(Name(<<"f">>), <<X>>), <<While(X, <<Pass(c + 2 * Indent)>>, c + Indent),
                                       Return(One, c + Indent)>>, c)>>}

Compound(c) ==
    {For(Name(<<"i">>), Range10, b, c) : b \in Bodies(c + Indent)}
        \cup {If(t, b, c) : t \in {Call(Name(<<"f">>), <<X>>), X, Compare(X, <<"Lt">>, <<Y>>)},
                            b \in Bodies(c + Indent)}
        \cup {For(X, Range10, <<Pass(c + Indent)>>, c), For(Name(<<"i">>), X, <<Pass(c + Indent)>>, c)}
        \cup {FunctionDef(<<"f">>, ps, r, ds, b, c) :
                 ps \in ParamLists, r \in Returns, ds \in DecoratorLists,
                 b \in FnBodies(c + Indent)}
        \cup {FunctionDef(<<"f">>, <<>>, PyNone, <<>>, b, c) : b \in Bodies(c + Indent)}

\* a simple statement can follow a semicolon, so it has any offset; a compound one
\* at the top level starts its line
AllStmts == Leaf(0) \cup Leaf(Indent) \cup Compound(0)

SomeStmts ==
    {Assign(<<X>>, BinOp(One, "Add", Two), 0), Pass(Indent),
     ClassDef(<<"A">>, <<Pass(Indent)>>, 0), RaiseStmt(PyNone, 0),
     Assign(<<X>>, Compare(X, <<"Lt">>, <<Y>>), 0), AugAssign(X, "MatMult", One, 0),
     Expr(X, 0), Expr(Call(Name(<<"p", "r", "i", "n", "t">>), <<X>>), 0),
     FunctionDef(<<"f">>, <<arg(<<"x">>, Name(<<"i", "n", "t">>))>>, Name(<<"i", "n", "t">>), <<>>,
                 <<ClassDef(<<"A">>, <<Pass(2 * Indent)>>, Indent), Return(One, Indent)>>, 0),
     If(Call(Name(<<"f">>), <<X>>), <<Pass(Indent)>>, 0),
     ImportFrom(PyNone, <<alias(<<"o", "s">>, PyNone)>>, 1, 0), RaiseStmt(ValueError, 0)}

\* modules of up to MaxStmts statements, and modules of one statement of any kind
Modules == {Module(b) : b \in UNION {[1..n -> SomeStmts] : n \in 0..MaxStmts}}
SingleModules == {Module(<<s>>) : s \in AllStmts}

----------------------------------------------------------------------------
(* Generator.__init__ *)

TestPy == PyStr(<<"t", "e", "s", "t", ".", "p", "y">>)
PrevPyx == <<"o", "l", "d", "\n">>

Start(f, c, d) ==
    /\ filename = f
    /\ code = c
    /\ disk = d
    /\ tree = PyNone
    /\ generate = <<>>
    /\ idx = 0
    /\ node = PyNone
    /\ ret = NotCalled
    /\ pyx = PrevPyx
    /\ opens = 0
    /\ pc = "check"
    /\ exc = "None"

InitWith(mods) ==
    /\ addr \in Addrs
    /\ \/ Start(PyNone, PyNone, NoFile)
       \/ Start(TestPy, PyNone, NoFile)
       \/ \E src \in mods \cup {BadSyntax} :
             \/ Start(PyNone, src, NoFile)
             \/ Start(TestPy, PyNone, src)
             \/ Start(TestPy, Module(<<Pass(0)>>), src)

Init == InitWith(Modules)
InitSingle == InitWith(SingleModules)

Raise(e) ==
    /\ pc' = "raised"
    /\ exc' = e

\* lines 69-70
CheckArgs ==
    /\ pc = "check"
    /\ IF filename = PyNone /\ code = PyNone
       THEN Raise("TypeError")
       ELSE pc' = "read" /\ exc' = exc
    /\ UNCHANGED <<filename, code, disk, tree, generate, idx, node, ret, pyx, opens, addr>>

\* lines 73-75
ReadFile ==
    /\ pc = "read"
    /\ IF filename # PyNone
       THEN IF disk = NoFile
            THEN Raise("FileNotFoundError") /\ code' = code
            ELSE code' = disk /\ pc' = "parse" /\ exc' = exc
       ELSE code' = code /\ pc' = "parse" /\ exc' = exc
    /\ UNCHANGED <<filename, disk, tree, generate, idx, node, ret, pyx, opens, addr>>

\* ParseSource with generated.pyx opened for writing before the loop
ParseSourceOpeningOutput ==
    /\ pc = "parse"
    /\ IF code = BadSyntax
       THEN Raise("SyntaxError") /\ tree' = tree /\ UNCHANGED <<pyx, opens>>
       ELSE tree' = code /\ pc' = "loop" /\ exc' = exc /\ pyx' = <<>> /\ opens' = opens + 1
    /\ generate' = <<>>
    /\ UNCHANGED <<filename, code, disk, idx, node, ret, addr>>

\* lines 78-79
ParseSource ==
    /\ pc = "parse"
    /\ IF code = BadSyntax
       THEN Raise("SyntaxError") /\ tree' = tree
       ELSE tree' = code /\ pc' = "loop" /\ exc' = exc
    /\ generate' = <<>>
    /\ UNCHANGED <<filename, code, disk, idx, node, ret, pyx, opens, addr>>

\* lines 82-83, one iteration
RenderNode ==
    /\ pc = "loop"
    /\ idx < Len(tree.body)
    /\ LET n == tree.body[idx + 1]
           s == parse_stmt(n)
       IN  /\ node' = n
           /\ ret' = s
           /\ IF s.st = "ok"
              THEN generate' = generate \o s.text \o <<"\n">> /\ idx' = idx + 1
                   /\ pc' = pc /\ exc' = exc
              ELSE IF s.st = "None"
              THEN Raise("TypeError") /\ UNCHANGED <<generate, idx>>
              ELSE Raise(s.st) /\ UNCHANGED <<generate, idx>>
    /\ UNCHANGED <<filename, code, disk, tree, pyx, opens, addr>>

\* lines 86-87
WriteFile ==
    /\ pc = "loop"
    /\ idx = Len(tree.body)
    /\ pyx' = generate
    /\ opens' = opens + 1
    /\ pc' = "done"
    /\ UNCHANGED <<filename, code, disk, tree, generate, idx, node, ret, exc, addr>>

Next == CheckArgs \/ ReadFile \/ ParseSource \/ RenderNode \/ WriteFile

Spec == Init /\ [][Next]_vars
SpecSingle == InitSingle /\ [][Next]_vars

----------------------------------------------------------------------------
(* What the specification documents, stated independently of the renderer *)

RECURSIVE LeadingSpaces(_)
LeadingSpaces(t) ==
    IF Len(t) = 0 \/ t[1] # " " THEN 0 ELSE 1 + LeadingSpaces(Tail(t))

DocSymbol(k) ==
    CASE k = "Add" -> <<"+">> [] k = "Sub" -> <<"-">> [] k = "Mult" -> <<"*">>
      [] k = "Div" -> <<"/">> [] k = "Pow" -> <<"*", "*">> [] k = "Mod" -> <<"%">>
      [] k = "LShift" -> <<"<", "<">> [] k = "RShift" -> <<">", ">">> [] k = "BitOr" -> <<"|">>
      [] k = "BitXor" -> <<"^">> [] k = "BitAnd" -> <<"&">> [] k = "FloorDiv" -> <<"/", "/">>
      [] k = "Eq" -> <<"=", "=">> [] k = "NotEq" -> <<"!", "=">> [] k = "Lt" -> <<"<">>
      [] k = "LtE" -> <<"<", "=">> [] k = "Gt" -> <<">">> [] k = "GtE" -> <<">", "=">>
      [] k = "Is" -> <<"i", "s">> [] k = "IsNot" -> <<"i", "s", " ", "n", "o", "t">> [] k = "In" -> <<"i", "n">>
      [] k = "NotIn" -> <<"n", "o", "t", " ", "i", "n">>

IsAtom(e) == e.kind \in {"Name", "Constant"}

\* a name is its identifier, a string constant is single-quoted, an integer is decimal
DocAtom(e) ==
    IF e.kind = "Name" THEN e.id
    ELSE IF e.value.kind = "str" THEN <<"'">> \o e.value.s \o <<"'">>
    ELSE IntStr(e.value.n)

DocAtoms(es) == join(<<",", " ">>, [k \in DOMAIN es |-> DocAtom(es[k])])

Called == ret # NotCalled
UnsupportedKinds == {"ClassDef", "While"}
HasRenderedBody(s) == s.kind \in {"For", "If", "FunctionDef"}
Supported(s) == s.kind \notin UnsupportedKinds

\* the statements parse_stmt is handed while stmt is rendered
RECURSIVE Handed(_)
Handed(stmt) ==
    {stmt} \cup (IF HasRenderedBody(stmt)
                 THEN UNION {Handed(stmt.body[k]) : k \in DOMAIN stmt.body}
                 ELSE {})

\* the text the loop of __init__ accumulates over a whole body
RECURSIVE Accumulated(_)
Accumulated(body) ==
    IF Len(body) = 0 THEN <<>>
    ELSE parse_stmt(body[1]).text \o <<"\n">> \o Accumulated(Tail(body))

----------------------------------------------------------------------------
(* Claims *)

\* C1: a statement of an unsupported kind (a class definition, a while loop), at the
\* top level of the module or nested in a for/if/function body, produces no output
\* and raises nothing: the render goes on as if the statement were not there.
C1_UnsupportedSilentlyDropped ==
    Called =>
        /\ node.kind \in UnsupportedKinds => pc # "raised"
        /\ \A s \in Handed(node) :
              HasRenderedBody(s) =>
                  parse_body(s.body) = parse_body(SelectSeq(s.body, Supported))

\* C2: whenever parse_stmt returns text for a statement, top-level or nested, the
\* text starts with exactly col_offset spaces.
C2_IndentationLaw ==
    Called =>
        /\ ret.st = "ok" => LeadingSpaces(ret.text) = node.col_offset
        /\ \A s \in Handed(node) :
              parse_stmt(s).st = "ok" => LeadingSpaces(parse_stmt(s).text) = s.col_offset

\* C3: an assignment of a comparison of names or constants, with operators of the
\* table, renders the comparison as '<left> <symbol> <right>' with the first
\* operator and the first comparator, and does not fail.
C3_CompareRendering ==
    (/\ Called
     /\ node.kind = "Assign"
     /\ node.targets[1].kind = "Name"
     /\ node.value.kind = "Compare")
        => ret = Ok(space(node.col_offset) \o node.targets[1].id \o <<" ", "=", " ">>
                    \o DocAtom(node.value.left) \o <<" ">>
                    \o DocSymbol(node.value.ops.elts[1].kind) \o <<" ">>
                    \o DocAtom(node.value.comparators.elts[1]))

\* C4: 'return <name>' renders as col_offset spaces, 'return ' and the identifier;
\* 'def f(x: int) -> int:' with body 'return x' at offset 4 renders as
\* 'cdef int f(int x) :\n    return x\n'.
C4_ReturnName ==
    Called =>
        /\ (node.kind = "Return" /\ node.value.kind = "Name")
              => ret = Ok(space(node.col_offset) \o <<"r", "e", "t", "u", "r", "n", " ">> \o node.value.id)
        /\ node = FunctionDef(<<"f">>, <<arg(<<"x">>, Name(<<"i", "n", "t">>))>>, Name(<<"i", "n", "t">>), <<>>,
                              <<Return(X, 4)>>, 0)
              => ret = Ok(<<"c", "d", "e", "f", " ", "i", "n", "t", " ", "f", "(", "i", "n", "t", " ", "x", ")", " ", ":", "\n", " ", " ", " ", " ", "r", "e", "t", "u", "r", "n", " ", "x", "\n">>)

DocOption(d) ==
    IF d.func.id = <<"n", "o", "_", "g", "i", "l">> THEN <<"n", "o", "g", "i", "l">> ELSE <<"e", "x", "c", "e", "p", "t", " ">> \o DocAtoms(d.args.elts)

\* C5: the option tokens of a function header follow the decorators' order and are
\* separated by one space; without a recognized decorator the segment is empty.
C5_OptionsSpaceSeparated ==
    (/\ Called
     /\ node.kind = "FunctionDef"
     /\ node.returns = PyNone
     /\ node.args = arguments(<<>>)
     /\ node.body = <<Pass(node.col_offset + Indent)>>
     /\ \A k \in DOMAIN node.decorator_list :
           node.decorator_list[k] \in {NoGil, ExceptError})
        => ret = Ok(space(node.col_offset) \o <<"d", "e", "f", " ">> \o node.name \o <<"(", ")", " ">>
                    \o join(<<" ">>, [k \in DOMAIN node.decorator_list |->
                                       DocOption(node.decorator_list[k])])
                    \o <<":", "\n">> \o space(node.col_offset + Indent) \o <<".", ".", ".", "\n">>)

\* C6: 'import n1, ..., nk' at offset c renders as c spaces, 'import ' and the
\* imported names joined by ', '.
C6_ImportNames ==
    (Called /\ node.kind = "Import")
        => ret = Ok(space(node.col_offset) \o <<"i", "m", "p", "o", "r", "t", " ">>
                    \o join(<<",", " ">>, [k \in DOMAIN node.names.elts |-> node.names.elts[k].name]))

\* C7: 'target op= value' with a name target and an operator of the table renders as
\* col_offset spaces, the identifier, a space, the symbol followed by '=', a space
\* and the value.
C7_AugAssign ==
    (/\ Called
     /\ node.kind = "AugAssign"
     /\ node.target.kind = "Name"
     /\ node.op.kind \in TableBinOps
     /\ node.value.kind = "Constant")
        => ret = Ok(space(node.col_offset) \o node.target.id \o <<" ">>
                    \o DocSymbol(node.op.kind) \o <<"=", " ">> \o DocAtom(node.value))

\* C8: 'raise N(a1, ..., ak)' renders as col_offset spaces and 'raise N(a1, ..., ak)'
\* with one opening and one closing parenthesis; 'raise N' renders as 'raise N'.
C8_Raise ==
    (Called /\ node.kind = "Raise") =>
        /\ node.exc.kind = "Name"
              => ret = Ok(space(node.col_offset) \o <<"r", "a", "i", "s", "e", " ">> \o node.exc.id)
        /\ (node.exc.kind = "Call" /\ node.exc.func.kind = "Name")
              => ret = Ok(space(node.col_offset) \o <<"r", "a", "i", "s", "e", " ">> \o node.exc.func.id
                          \o <<"(">> \o DocAtoms(node.exc.args.elts) \o <<")">>)

IsPlainBinOp(e) ==
    e.kind = "BinOp" /\ e.op.kind \in TableBinOps /\ IsAtom(e.left) /\ IsAtom(e.right)
DocBinOp(e) == DocAtom(e.left) \o <<" ">> \o DocSymbol(e.op.kind) \o <<" ">> \o DocAtom(e.right)

\* C9: a binary operation of names or constants with an arithmetic, shift or bitwise
\* operator of the table renders as '<left> <symbol> <right>', as the value of an
\* assignment, an annotated assignment or a return; 'x = 1 + 2' at offset 0 renders
\* as 'x = 1 + 2'.
C9_BinOpRendering ==
    Called =>
        /\ (node.kind = "Assign" /\ node.targets[1].kind = "Name" /\ IsPlainBinOp(node.value))
              => ret = Ok(space(node.col_offset) \o node.targets[1].id \o <<" ", "=", " ">>
                          \o DocBinOp(node.value))
        /\ (node.kind = "AnnAssign" /\ IsPlainBinOp(node.value))
              => ret = Ok(space(node.col_offset) \o node.target.id \o <<":", " ">>
                          \o node.annotation.id \o <<" ", "=", " ">> \o DocBinOp(node.value))
        /\ (node.kind = "Return" /\ IsPlainBinOp(node.value))
              => ret = Ok(space(node.col_offset) \o <<"r", "e", "t", "u", "r", "n", " ">> \o DocBinOp(node.value))
        /\ node = Assign(<<X>>, BinOp(One, "Add", Two), 0) => ret = Ok(<<"x", " ", "=", " ", "1", " ", "+", " ", "2">>)

\* 'x = 10 // 'a'' has been rendered
C9_Witness ==
    /\ node = Assign(<<X>>, BinOp(Constant(PyInt(MaxInt)), "FloorDiv", Constant(PyStr(<<"a">>))), 0)
    /\ ret = Ok(<<"x", " ", "=", " ">> \o IntStr(MaxInt) \o <<" ", "/", "/", " ", "'", "a", "'">>)
    /\ pc = "done"

\* C10: generated.pyx is opened for writing only once every top-level statement has
\* been rendered: when __init__ raises, the file was never opened and holds what it
\* held; when __init__ completes, the file was written once, with the whole
\* accumulated text.
C10_WriteAfterRender ==
    /\ opens <= 1
    /\ opens = 1 => pc = "done" /\ idx = Len(tree.body)
    /\ pc = "raised" => opens = 0 /\ pyx = PrevPyx
    /\ pc = "done" => opens = 1 /\ pyx = generate /\ generate = Accumulated(tree.body)

\* a later statement failed after text had been accumulated
C10_Witness ==
    /\ pc = "raised"
    /\ exc = "KeyError"
    /\ idx >= 1
    /\ generate # <<>>
    /\ pyx = PrevPyx
====
